---- MODULE Spec2Model ----
(***************************************************************************)
(* Model of the origin-scoped login/negotiation coordinator of src/main.js *)
(* (Europa): the onHeadersReceived hook, getCookies, shouldSetShortcuts,   *)
(* showUnsupportedJupyterMsg, askUserForShortcuts, sendShortcuts,          *)
(* createDialog, and the 'dialog-result', 'open-url' and 'save-settings'   *)
(* handlers.                                                               *)
(*                                                                         *)
(* JavaScript strings are sequences of tokens, so that concatenation is \o *)
(* and String.replace is an operation on sequences.  Every step is one     *)
(* callback run to completion on the single control thread.  lastEvt holds *)
(* the event the step handled with its inputs, out what the step did to    *)
(* the outside: continuation calls, dialog boxes created, requests issued, *)
(* callbacks invoked, windows reloaded, and the exception that left the    *)
(* callback, after which the Electron main process keeps running.          *)
(***************************************************************************)
EXTENDS Naturals, Sequences, FiniteSets, Bags, TLC

\* ---------------------------------------------------------------- bounds
MaxFetch == 2     \* getCookies calls in a run
MaxWins == 1      \* windows created by 'open-url'
MaxClock == 1     \* distinct later values of Date.now()
MaxPuts == 1      \* PUT requests in flight
MaxRaw == 2       \* entries of 'raw' in a probe response

\* ------------------------------------------------------------ input sets
Origins == {"https://a:8888", "https://b:8888"}

TAG == "_ask_shortcuts"

\* URLs that match JUPYTER_LOGIN_SUCCESS_FILTER; one of them contains the
\* text of the ticket tag itself
Urls ==
  { <<"https://a:8888", "/api/contents/x">>,
    <<"https://a:8888", "/api/contents/", TAG, "/y">>,
    <<"https://b:8888", "/api/contents/x">> }

\* the URLs given to 'open-url'; a response of the other origin reaches the
\* hook from a window opened here (a redirect, an embedded resource)
OpenUrls == {<<"https://a:8888", "/lab">>}

Prefs == {"ask", "always", "never"}

Answers == {"primary", "secondary", "closed"}

Cookie(n, v) == [name |-> <<n>>, value |-> <<v>>]

CookieLists ==
  { <<>>,
    <<Cookie("a", "1")>>,
    <<Cookie("a", "1"), Cookie("b", "2")>>,
    <<Cookie("a", "1"), Cookie("b", "2"), Cookie("c", "3")>> }

\* JSON values found under 'raw': a list of entries, or null
JsonList(n) == [type |-> "list", items |-> [i \in 1..n |-> "{}"]]

JsonNull == [type |-> "null", items |-> <<>>]

\* response bodies of the probe: text that JSON.parse rejects, the JSON
\* text null, and JSON objects without 'raw' or with a value under 'raw'
Bodies ==
  { [text |-> t, fields |-> [f \in {} |-> JsonNull]] : t \in {"malformed", "null", "object"} }
  \cup { [text |-> "object", fields |-> [f \in {"raw"} |-> v]]
         : v \in {JsonList(n) : n \in 0..MaxRaw} \cup {JsonNull} }

Undefined == <<"<undefined>">>

UnknownId == <<"no-such-dialog">>

\* the body argument of a request callback that got an error
NoBody == [text |-> "undefined", fields |-> [f \in {} |-> JsonNull]]

TimeStrings == <<"1598459201550", "1598459201551", "1598459201552", "1598459201553">>

\* ------------------------------------------------------------- variables
VARIABLES
  pref,                  \* getSettings()['show-keyboard-shortcuts-dialog']
  loginTracker,          \* the keys of loginTracker
  windowTracker,         \* origin -> window
  dialogRespTracker,     \* dialog id -> callback
  jupyterCookieTracker,  \* origin -> {cookie, xsrf}
  wins,                  \* the BrowserWindows created by 'open-url'
  cookiePending,         \* cookies.get calls whose callback has not run
  probePending,          \* request.get calls whose callback has not run
  putPending,            \* request.put calls whose callback has not run
  clock,                 \* the value Date.now() returned last
  nFetch,                \* origin -> number of getCookies calls
  nProbe,                \* origin -> number of probe GET requests
  surfaceSinceWrite,     \* history: origins with a window created since the
                         \* last write of their jupyterCookieTracker entry
  lastEvt,               \* the event handled by the last step, with its inputs
  out                    \* what the last step did to the outside

vars == << pref, loginTracker, windowTracker, dialogRespTracker,
           jupyterCookieTracker, wins, cookiePending, probePending,
           putPending, clock, nFetch, nProbe, surfaceSinceWrite, lastEvt,
           out >>

\* --------------------------------------------------------------- helpers
PutIfAbsent(f, k, v) ==
  IF k \in DOMAIN f THEN f ELSE [x \in (DOMAIN f) \cup {k} |-> IF x = k THEN v ELSE f[x]]

\* obj[k] = v
Put(f, k, v) == [x \in (DOMAIN f) \cup {k} |-> IF x = k THEN v ELSE f[x]]

Inc(f, k) == [f EXCEPT ![k] = @ + 1]

NoOut == [cont |-> <<>>, shown |-> <<>>, sent |-> <<>>, called |-> <<>>,
          reloaded |-> <<>>, threw |-> ""]

OriginOfFirst(url) == "https://a:8888"

\* new URL(url).origin
OriginOf(url) == url[1]

\* `${Date.now()}` at time t
TimeString(t) == <<TimeStrings[t + 1]>>

\* the values Date.now() can return at its next call
Times == {t \in {clock, clock + 1} : t <= MaxClock}

\* String.prototype.replace with a non-global pattern: the first match only
RECURSIVE ReplaceFirst(_, _)
ReplaceFirst(s, tok) ==
  IF s = <<>> THEN <<>>
  ELSE IF Head(s) = tok THEN Tail(s)
  ELSE <<Head(s)>> \o ReplaceFirst(Tail(s), tok)

\* line 209
AskId(url) == Append(url, TAG)

\* windowTracker[origin]; 0 stands for undefined
TrackedWindow(origin) ==
  IF origin \in DOMAIN windowTracker THEN windowTracker[origin] ELSE 0

\* origins of which a window has been closed
EverClosed == {OriginOf(wins[w].url) : w \in {x \in DOMAIN wins : ~wins[x].open}}

SomeWindowOpen == \E w \in DOMAIN wins : wins[w].open

RECURSIVE SumOver(_, _)
SumOver(f, S) ==
  IF S = {} THEN 0
  ELSE LET x == CHOOSE y \in S : TRUE IN f[x] + SumOver(f, S \ {x})

\* the number of getCookies calls made so far
TotalFetch == SumOver(nFetch, Origins)

\* ---------------------------------------------------- the code's decisions
LoginUnseenAlways(origin) == TRUE

\* line 296: !(urlObj.origin in loginTracker)
LoginUnseen(origin) == origin \notin loginTracker

HookContinuationIfUnseen(details, unseen) ==
  IF unseen THEN <<details>> ELSE <<>>

\* line 308: callback(details), whatever the branch taken before
HookContinuation(details, unseen) == <<details>>

ShortcutDialogEnabledUnlessAlways(p) == p # "always"

\* line 151
ShortcutDialogEnabled(p) == p = "ask"

CookieHeaderSwapped(result) ==
  result[2].name \o <<"=">> \o result[2].value \o <<"; ">>
    \o result[1].name \o <<"=">> \o result[1].value

\* lines 326-332
CookieHeader(result) ==
  result[1].name \o <<"=">> \o result[1].value \o <<"; ">>
    \o result[2].name \o <<"=">> \o result[2].value

\* line 336
XsrfToken(result) == result[1].value

\* lines 325-340: the entry getCookies leaves in jupyterCookieTracker; the
\* reads result[0]['name'] and result[1]['name'] throw a TypeError when the
\* entry is missing, after the assignments made before them
CookieEntry(result) ==
  IF Len(result) = 0 THEN [cookie |-> Undefined, xsrf |-> Undefined]
  ELSE IF Len(result) = 1
    THEN [cookie |-> result[1].name \o <<"=">> \o result[1].value \o <<"; ">>,
          xsrf |-> Undefined]
  ELSE [cookie |-> CookieHeader(result), xsrf |-> XsrfToken(result)]

GetCookiesNeverThrows(result) == ""

GetCookiesThrows(result) ==
  IF Len(result) < 2 THEN "TypeError: Cannot read property 'name' of undefined"
  ELSE ""

\* line 179: if (rcvData['raw']); every list is truthy, the empty one too
Truthy(v) == v.type # "null"

\* lines 176-189: what the probe's completion does.
\*   threw:  the exception that left the callback (JSON.parse, or
\*           rcvData['raw'] on null); nothing after it runs
\*   warn:   showUnsupportedJupyterMsg was called
\*   called: callback(result) was reached;  result: its argument
ProbeOutcome(error, body) ==
  IF error THEN [threw |-> "", warn |-> TRUE, called |-> TRUE, result |-> FALSE]
  ELSE IF body.text = "malformed"
    THEN [threw |-> "SyntaxError: Unexpected token in JSON", warn |-> FALSE,
          called |-> FALSE, result |-> FALSE]
  ELSE IF body.text = "null"
    THEN [threw |-> "TypeError: Cannot read property 'raw' of null",
          warn |-> FALSE, called |-> FALSE, result |-> FALSE]
  ELSE IF "raw" \in DOMAIN body.fields /\ Truthy(body.fields["raw"])
    THEN [threw |-> "", warn |-> FALSE, called |-> TRUE,
          result |-> (Len(body.fields["raw"].items) = 2)]
  ELSE [threw |-> "", warn |-> TRUE, called |-> TRUE, result |-> FALSE]

removeTrackingForAll(url) == {}

\* lines 351-357: the keys of loginTracker after removeTrackingForUrl(url)
removeTrackingForUrl(url) == loginTracker \ {OriginOf(url)}

AskCallbackSendsUnlessSecondary(resp) == resp # "secondary"

\* line 211
AskCallbackSends(resp) == resp = "primary"

ResolverOfSomeId(id) ==
  dialogRespTracker[CHOOSE x \in DOMAIN dialogRespTracker : TRUE]

\* line 613: dialogRespTracker[id]
Resolver(id) == dialogRespTracker[id]

\* lines 258-275: the dialog box created
DialogBox(window, type, id) == [parent |-> window, type |-> type, id |-> id]

\* line 277: the callback stored under id; gen tells apart the callbacks
\* stored under the same id one after the other
Callback(fn, id) ==
  [fn |-> fn, id |-> id,
   gen |-> IF id \in DOMAIN dialogRespTracker
             THEN dialogRespTracker[id].gen + 1 ELSE 1]

\* lines 160-172 and 229-243: the requests issued
GetRequest(url, entry) ==
  [method |-> "GET", origin |-> OriginOf(url), url |-> url,
   cookie |-> entry.cookie, xsrf |-> entry.xsrf]

PutRequest(origin, entry) ==
  [method |-> "PUT", origin |-> origin, url |-> <<origin>>,
   cookie |-> entry.cookie, xsrf |-> entry.xsrf]

\* ------------------------------------------------------------------ Init
Init ==
  /\ pref \in Prefs
  /\ loginTracker = {}
  /\ windowTracker = [o \in {} |-> 0]
  /\ dialogRespTracker = [i \in {} |-> 0]
  /\ jupyterCookieTracker = [o \in {} |-> 0]
  /\ wins = <<>>
  /\ cookiePending = EmptyBag
  /\ probePending = EmptyBag
  /\ putPending = EmptyBag
  /\ clock = 0
  /\ nFetch = [o \in Origins |-> 0]
  /\ nProbe = [o \in Origins |-> 0]
  /\ surfaceSinceWrite = {}
  /\ lastEvt = [type |-> "init"]
  /\ out = NoOut

\* --------------------------------------------------------------- actions

\* lines 292-309: the onHeadersReceived hook on a content-API response,
\* which some open window has received
OnHeadersReceived(url) ==
  LET details == [url |-> url]
      origin  == OriginOf(details.url)
      unseen  == LoginUnseen(origin)
  IN  /\ SomeWindowOpen
      /\ unseen => TotalFetch < MaxFetch
      /\ IF unseen
           THEN /\ loginTracker' = loginTracker \cup {origin}
                /\ cookiePending' = cookiePending (+) SetToBag({details.url})
                /\ nFetch' = Inc(nFetch, origin)
           ELSE UNCHANGED << loginTracker, cookiePending, nFetch >>
      /\ out' = [NoOut EXCEPT !.cont = HookContinuation(details, unseen)]
      /\ UNCHANGED surfaceSinceWrite
      /\ lastEvt' = [type |-> "response", details |-> details]
      /\ UNCHANGED << pref, windowTracker, dialogRespTracker,
                      jupyterCookieTracker, wins, probePending, putPending,
                      clock, nProbe >>

\* lines 319-341 and 150-171: the cookies.get callback of getCookies, and
\* the shouldSetShortcuts call made from its continuation
CookiesGetDone(url, result) ==
  LET key   == OriginOf(url)
      entry == CookieEntry(result)
      threw == GetCookiesThrows(result)
      req   == GetRequest(url, entry)
      probes == threw = "" /\ ShortcutDialogEnabled(pref)
  IN  /\ BagIn(url, cookiePending)
      /\ cookiePending' = cookiePending (-) SetToBag({url})
      /\ jupyterCookieTracker' = Put(jupyterCookieTracker, key, entry)
      /\ IF probes
           THEN /\ probePending' = probePending (+) SetToBag({req})
                /\ nProbe' = Inc(nProbe, key)
           ELSE UNCHANGED << probePending, nProbe >>
      /\ out' = [NoOut EXCEPT !.threw = threw,
                              !.sent = IF probes THEN <<req>> ELSE <<>>]
      /\ surfaceSinceWrite' = surfaceSinceWrite \ {key}
      /\ lastEvt' = [type |-> "cookies", url |-> url, result |-> result]
      /\ UNCHANGED << pref, loginTracker, windowTracker, dialogRespTracker,
                      wins, putPending, clock, nFetch >>

\* lines 173-190, 134-144, 300-304, 193-215: the request.get callback of
\* shouldSetShortcuts with the dialogs it leads to; t is the value of
\* Date.now() when showUnsupportedJupyterMsg reads it
ProbeDone(req, error, body, t) ==
  LET origin == OriginOf(req.url)
      res    == ProbeOutcome(error, body)
      asks   == res.called /\ res.result
      id     == IF res.warn THEN TimeString(t) ELSE AskId(req.url)
      box    == DialogBox(TrackedWindow(origin),
                          IF res.warn THEN "warning" ELSE "question", id)
      cb     == IF res.warn THEN Callback("noop", id) ELSE Callback("ask", id)
  IN  /\ BagIn(req, probePending)
      /\ IF res.warn THEN t \in Times ELSE t = clock
      /\ clock' = t
      /\ probePending' = probePending (-) SetToBag({req})
      /\ dialogRespTracker' =
           IF res.warn \/ asks THEN Put(dialogRespTracker, id, cb)
           ELSE dialogRespTracker
      /\ out' = [NoOut EXCEPT
                   !.threw = res.threw,
                   !.shown = IF res.warn \/ asks THEN <<box>> ELSE <<>>,
                   !.called = IF res.called
                                THEN <<[fn |-> "probe", arg |-> res.result]>>
                                ELSE <<>>]
      /\ UNCHANGED surfaceSinceWrite
      /\ lastEvt' = [type |-> "probe", url |-> req.url, error |-> error,
                     body |-> body]
      /\ UNCHANGED << pref, loginTracker, windowTracker, jupyterCookieTracker,
                      wins, cookiePending, putPending, nFetch, nProbe >>

\* lines 612-614, 210-214, 221-243: the 'dialog-result' handler, the
\* callback it invokes and sendShortcuts
DialogResult(id, resp) ==
  LET known  == id \in DOMAIN dialogRespTracker
      cb     == Resolver(id)
      sends  == known /\ cb.fn = "ask" /\ AskCallbackSends(resp)
      url    == ReplaceFirst(cb.id, TAG)
      origin == OriginOf(url)
      cached == origin \in DOMAIN jupyterCookieTracker
      req    == PutRequest(origin, jupyterCookieTracker[origin])
  IN  /\ (sends /\ cached) => BagCardinality(putPending) < MaxPuts
      /\ putPending' = IF sends /\ cached THEN putPending (+) SetToBag({req})
                       ELSE putPending
      /\ out' = [NoOut EXCEPT
                   !.threw =
                      IF ~known
                        THEN "TypeError: dialogRespTracker[id] is not a function"
                      ELSE IF sends /\ ~cached
                        THEN "TypeError: Cannot read property 'cookie' of undefined"
                      ELSE "",
                   !.called = IF known THEN <<[fn |-> cb, arg |-> resp]>> ELSE <<>>,
                   !.sent = IF sends /\ cached THEN <<req>> ELSE <<>>]
      /\ UNCHANGED surfaceSinceWrite
      /\ lastEvt' = [type |-> "reply", id |-> id, resp |-> resp]
      /\ UNCHANGED << pref, loginTracker, windowTracker, dialogRespTracker,
                      jupyterCookieTracker, wins, cookiePending, probePending,
                      clock, nFetch, nProbe >>

\* lines 244-248: the request.put callback of sendShortcuts
PutDone(req, error) ==
  LET w == TrackedWindow(req.origin)
  IN  /\ BagIn(req, putPending)
      /\ putPending' = putPending (-) SetToBag({req})
      /\ out' = IF error THEN NoOut
                ELSE IF w = 0
                  THEN [NoOut EXCEPT !.threw =
                          "TypeError: Cannot read property 'reload' of undefined"]
                ELSE IF ~wins[w].open
                  THEN [NoOut EXCEPT !.threw = "TypeError: Object has been destroyed"]
                ELSE [NoOut EXCEPT !.reloaded = <<w>>]
      /\ UNCHANGED surfaceSinceWrite
      /\ lastEvt' = [type |-> "put", origin |-> req.origin, error |-> error]
      /\ UNCHANGED << pref, loginTracker, windowTracker, dialogRespTracker,
                      jupyterCookieTracker, wins, cookiePending, probePending,
                      clock, nFetch, nProbe >>

\* lines 548-598: the 'open-url' handler
OpenUrl(url) ==
  /\ wins' = Append(wins, [url |-> url, open |-> TRUE])
  /\ windowTracker' = Put(windowTracker, OriginOf(url), Len(wins) + 1)
  /\ out' = NoOut
  /\ surfaceSinceWrite' = surfaceSinceWrite \cup {OriginOf(url)}
  /\ lastEvt' = [type |-> "open-url", url |-> url]
  /\ UNCHANGED << pref, loginTracker, dialogRespTracker, jupyterCookieTracker,
                  cookiePending, probePending, putPending, clock, nFetch,
                  nProbe >>

\* lines 581-584 and 351-357: the 'closed' handler of a window of 'open-url'
Closed(w) ==
  /\ w \in DOMAIN wins
  /\ wins[w].open
  /\ wins' = [wins EXCEPT ![w].open = FALSE]
  /\ loginTracker' = removeTrackingForUrl(wins[w].url)
  /\ out' = NoOut
  /\ UNCHANGED surfaceSinceWrite
  /\ lastEvt' = [type |-> "closed", win |-> w]
  /\ UNCHANGED << pref, windowTracker, dialogRespTracker, jupyterCookieTracker,
                  cookiePending, probePending, putPending, clock, nFetch,
                  nProbe >>

\* lines 471-473 and 403-405: the 'save-settings' handler
SaveSettings(p) ==
  /\ p # pref
  /\ pref' = p
  /\ out' = NoOut
  /\ UNCHANGED surfaceSinceWrite
  /\ lastEvt' = [type |-> "save-settings", pref |-> p]
  /\ UNCHANGED << loginTracker, windowTracker, dialogRespTracker,
                  jupyterCookieTracker, wins, cookiePending, probePending,
                  putPending, clock, nFetch, nProbe >>

\* the steps that create and close no window
Events ==
  \/ \E url \in Urls : OnHeadersReceived(url)
  \/ \E url \in Urls, result \in CookieLists : CookiesGetDone(url, result)
  \/ \E req \in BagToSet(probePending), t \in 0..MaxClock :
       \/ ProbeDone(req, TRUE, NoBody, t)
       \/ \E body \in Bodies : ProbeDone(req, FALSE, body, t)
  \/ \E id \in DOMAIN dialogRespTracker, resp \in Answers : DialogResult(id, resp)
  \/ DialogResult(UnknownId, "primary")
  \/ \E req \in BagToSet(putPending), error \in BOOLEAN : PutDone(req, error)
  \/ \E p \in Prefs : SaveSettings(p)

Next ==
  \/ Events
  \/ \E url \in OpenUrls : Len(wins) < MaxWins /\ OpenUrl(url)
  \/ \E w \in DOMAIN wins : Closed(w)

Spec == Init /\ [][Next]_vars

\* the same steps with one window more, so that an origin can be open in two
\* windows at once and can be opened again after a close
NextReopen ==
  \/ Events
  \/ \E url \in OpenUrls : Len(wins) < MaxWins + 1 /\ OpenUrl(url)
  \/ \E w \in DOMAIN wins : Closed(w)

SpecReopen == Init /\ [][NextReopen]_vars

\* ================================================================ claims

IsAskTicket(id) ==
  id \in DOMAIN dialogRespTracker /\ dialogRespTracker[id].fn = "ask"

\* C1: while no window of an origin O has been closed, the matching
\* responses delivered for O have started exactly one credential fetch
\* (none before the first response) and at most one probe, and a response
\* for an origin that is already seen changes nothing of the pipeline.
C1_OnePipelinePerOrigin ==
  /\ [](\A o \in Origins \ EverClosed :
          /\ nFetch[o] = IF o \in loginTracker THEN 1 ELSE 0
          /\ nProbe[o] <= nFetch[o])
  /\ [][(lastEvt'.type = "response"
           /\ OriginOf(lastEvt'.details.url) \in loginTracker)
          => UNCHANGED << loginTracker, cookiePending, probePending,
                          putPending, jupyterCookieTracker, dialogRespTracker,
                          nFetch, nProbe >>]_vars

C1_Witness ==
  /\ lastEvt.type = "response"
  /\ OriginOf(lastEvt.details.url) \notin EverClosed
  /\ OriginOf(lastEvt.details.url) \in DOMAIN jupyterCookieTracker
  /\ nFetch[OriginOf(lastEvt.details.url)] = 1
  /\ nProbe[OriginOf(lastEvt.details.url)] = 1

\* C2: a 'primary' reply on the shortcuts ticket of origin O issues exactly
\* one PUT to O with the cached credentials, any other reply issues none, a
\* PUT is issued in no other step, and the surface of O is reloaded only by
\* the completion of a PUT for O without error, which reloads it when it is
\* open.
C2_PutOnlyOnPrimary ==
  /\ (lastEvt.type = "reply" /\ IsAskTicket(lastEvt.id) /\ lastEvt.resp = "primary")
       => out.sent = << [method |-> "PUT", origin |-> lastEvt.id[1],
                         url |-> <<lastEvt.id[1]>>,
                         cookie |-> jupyterCookieTracker[lastEvt.id[1]].cookie,
                         xsrf |-> jupyterCookieTracker[lastEvt.id[1]].xsrf] >>
  /\ (lastEvt.type = "reply" /\ lastEvt.resp # "primary") => out.sent = <<>>
  /\ \A i \in DOMAIN out.sent :
       out.sent[i].method = "PUT"
         => /\ lastEvt.type = "reply"
            /\ lastEvt.resp = "primary"
            /\ IsAskTicket(lastEvt.id)
            /\ lastEvt.id[1] = out.sent[i].origin
  /\ out.reloaded # <<>>
       => /\ lastEvt.type = "put"
          /\ ~lastEvt.error
          /\ out.reloaded = <<windowTracker[lastEvt.origin]>>
  /\ (/\ lastEvt.type = "put"
      /\ ~lastEvt.error
      /\ lastEvt.origin \in DOMAIN windowTracker
      /\ wins[windowTracker[lastEvt.origin]].open)
       => out.reloaded = <<windowTracker[lastEvt.origin]>>

C2_Witness ==
  /\ lastEvt.type = "put"
  /\ out.reloaded # <<>>

\* C3: resolve(id, answer) on a registered id invokes the resolver exactly
\* once with the answer and removes it from the ticket table, so that a
\* second resolve with the same id right after it invokes nothing.
C3_TicketSingleUse ==
  /\ []((lastEvt.type = "reply" /\ out.called # <<>>)
          => /\ Len(out.called) = 1
             /\ out.called[1].arg = lastEvt.resp
             /\ lastEvt.id \notin DOMAIN dialogRespTracker)
  /\ [][(/\ lastEvt.type = "reply"
         /\ out.called # <<>>
         /\ lastEvt'.type = "reply"
         /\ lastEvt'.id = lastEvt.id)
          => out'.called = <<>>]_vars

\* C4: a reply whose id has no resolver registered invokes nothing, throws
\* nothing and changes no state.
C4_UnknownIdTolerated ==
  /\ []((lastEvt.type = "reply" /\ lastEvt.id \notin DOMAIN dialogRespTracker)
          => /\ out.called = <<>>
             /\ out.threw = "")
  /\ [][(lastEvt'.type = "reply" /\ lastEvt'.id \notin DOMAIN dialogRespTracker)
          => UNCHANGED << loginTracker, windowTracker, dialogRespTracker,
                          jupyterCookieTracker, wins, cookiePending,
                          probePending, putPending >>]_vars

\* C5: while the preference is 'never' no step issues a probe GET, whatever
\* the origin and the cookies found (a probe GET is issued only by a cookie
\* lookup that completes under 'ask'), and as long as no probe has been
\* issued no dialog is registered and no PUT is in flight.
C5_NeverMeansNoProbe ==
  /\ pref = "never" => out.sent = <<>> \/ lastEvt.type = "reply"
  /\ \A i \in DOMAIN out.sent :
       out.sent[i].method = "GET" => lastEvt.type = "cookies" /\ pref = "ask"
  /\ (\A o \in Origins : nProbe[o] = 0)
       => /\ probePending = EmptyBag
          /\ putPending = EmptyBag
          /\ DOMAIN dialogRespTracker = {}
          /\ out.shown = <<>>

C5_Witness ==
  /\ pref = "never"
  /\ lastEvt.type = "cookies"
  /\ Len(lastEvt.result) >= 2

HasRawList(body) ==
  /\ body.text = "object"
  /\ "raw" \in DOMAIN body.fields
  /\ body.fields["raw"].type = "list"

LacksRaw(body) ==
  /\ body.text \in {"null", "object"}
  /\ "raw" \notin DOMAIN body.fields

VerdictGiven(v) == out.called = <<[fn |-> "probe", arg |-> v]>>

OneWarningShown == Len(out.shown) = 1 /\ out.shown[1].type = "warning"

\* C6: on a probe response without transport error and with a parseable
\* body, a 'raw' list of exactly two entries gives a positive verdict and
\* the shortcuts prompt, a 'raw' list of any other length gives a negative
\* verdict with no dialog at all, and a body without 'raw' gives a negative
\* verdict with exactly one warning dialog.
C6_ProbeClassification ==
  (lastEvt.type = "probe" /\ ~lastEvt.error)
    => /\ (HasRawList(lastEvt.body) /\ Len(lastEvt.body.fields["raw"].items) = 2)
            => /\ VerdictGiven(TRUE)
               /\ Len(out.shown) = 1
               /\ out.shown[1].type = "question"
       /\ (HasRawList(lastEvt.body) /\ Len(lastEvt.body.fields["raw"].items) # 2)
            => /\ VerdictGiven(FALSE)
               /\ out.shown = <<>>
       /\ LacksRaw(lastEvt.body)
            => /\ VerdictGiven(FALSE)
               /\ OneWarningShown

\* C7: a probe that ends in a transport error or in a body that JSON.parse
\* rejects gives a negative verdict, shows exactly one warning dialog and no
\* prompt, issues no request and throws nothing.
C7_ProbeFailureWarnsOnce ==
  (lastEvt.type = "probe" /\ (lastEvt.error \/ lastEvt.body.text = "malformed"))
    => /\ VerdictGiven(FALSE)
       /\ OneWarningShown
       /\ out.sent = <<>>
       /\ out.threw = ""

\* C8: a cookie lookup that returns fewer than two cookies leaves the
\* credential cache as it was, issues no probe, shows no dialog and throws
\* nothing.
C8_TooFewCookiesAborts ==
  /\ []((lastEvt.type = "cookies" /\ Len(lastEvt.result) < 2)
          => /\ out.sent = <<>>
             /\ out.shown = <<>>
             /\ out.threw = "")
  /\ [][(lastEvt'.type = "cookies" /\ Len(lastEvt'.result) < 2)
          => UNCHANGED jupyterCookieTracker]_vars

\* C9: a cookie lookup that returns at least two cookies caches for the
\* origin the header name0=value0; name1=value1 and the XSRF token value0,
\* built from the first two entries alone; [{a,1},{b,2}] gives 'a=1; b=2'
\* and '1'.
C9_HeaderFromFirstTwo ==
  (lastEvt.type = "cookies" /\ Len(lastEvt.result) >= 2)
    => /\ jupyterCookieTracker[OriginOf(lastEvt.url)] =
            [cookie |-> lastEvt.result[1].name \o <<"=">> \o lastEvt.result[1].value
                          \o <<"; ">> \o lastEvt.result[2].name \o <<"=">>
                          \o lastEvt.result[2].value,
             xsrf |-> lastEvt.result[1].value]
       /\ (lastEvt.result = <<Cookie("a", "1"), Cookie("b", "2")>>)
            => jupyterCookieTracker[OriginOf(lastEvt.url)] =
                 [cookie |-> <<"a", "=", "1", "; ", "b", "=", "2">>,
                  xsrf |-> <<"1">>]

C9_Witness ==
  /\ lastEvt.type = "cookies"
  /\ Len(lastEvt.result) = 3
  /\ jupyterCookieTracker[OriginOf(lastEvt.url)].xsrf = <<"1">>

\* C10: the hook passes the unmodified details to the continuation exactly
\* once in the step in which it runs, for seen and unseen origins alike;
\* that step caches no credentials, issues no request and shows no dialog,
\* and no other step calls the continuation.
C10_ContinuationAlways ==
  /\ [](IF lastEvt.type = "response"
          THEN /\ out.cont = <<lastEvt.details>>
               /\ out.sent = <<>>
               /\ out.shown = <<>>
               /\ out.threw = ""
          ELSE out.cont = <<>>)
  /\ [][lastEvt'.type = "response"
          => UNCHANGED << jupyterCookieTracker, probePending, putPending,
                          dialogRespTracker >>]_vars

C10_Witness ==
  /\ lastEvt.type = "response"
  /\ OriginOf(lastEvt.details.url) \in loginTracker
  /\ OriginOf(lastEvt.details.url) \in DOMAIN jupyterCookieTracker
  /\ out.cont = <<lastEvt.details>>

\* the cookies.get and request.get calls of an origin whose callback has not
\* run yet
PendingLookups(o) ==
  SumOver(cookiePending, {u \in BagToSet(cookiePending) : u[1] = o})

PendingProbes(o) ==
  SumOver(probePending, {r \in BagToSet(probePending) : r.origin = o})

\* C11: in every reachable state, whatever the interleaving of responses,
\* window opens, window closes and completions, every origin has at most one
\* pipeline in flight: at most one cookie lookup or probe that is still
\* pending.
C11_OnePipelineInFlight ==
  \A o \in Origins : PendingLookups(o) + PendingProbes(o) <= 1

\* C12: the loginSeen flag of an origin is set at most once in a run, and an
\* origin that has the flag keeps it in every later state.
C12_LoginSeenOnce ==
  /\ [](\A o \in Origins : nFetch[o] <= 1)
  /\ [][\A o \in Origins : o \in loginTracker => o \in loginTracker']_vars

\* C15: between two writes of the session header of an origin a window is
\* created for the origin: a cookie lookup that writes a header over one
\* written before finds a window created for the origin since that write.
C15_HeaderOncePerSurface ==
  [][(/\ lastEvt'.type = "cookies"
      /\ Len(lastEvt'.result) >= 2
      /\ lastEvt'.url[1] \in DOMAIN jupyterCookieTracker
      /\ jupyterCookieTracker[lastEvt'.url[1]].xsrf # Undefined)
       => lastEvt'.url[1] \in surfaceSinceWrite]_vars

\* C13: with several tickets registered under distinct ids, a reply with id
\* X invokes exactly the resolver registered under X with the reply's answer
\* and no other resolver (a request it issues goes to the origin of X), and
\* it leaves the tickets registered under all other ids as they were.
C13_ReplyInvokesOwnResolver ==
  /\ []((lastEvt.type = "reply" /\ lastEvt.id \in DOMAIN dialogRespTracker)
          => /\ out.called = <<[fn |-> dialogRespTracker[lastEvt.id],
                                arg |-> lastEvt.resp]>>
             /\ out.called[1].fn.id = lastEvt.id
             /\ \A i \in DOMAIN out.sent : out.sent[i].origin = lastEvt.id[1])
  /\ [][lastEvt'.type = "reply"
          => \A y \in DOMAIN dialogRespTracker \ {lastEvt'.id} :
               /\ y \in DOMAIN dialogRespTracker'
               /\ dialogRespTracker'[y] = dialogRespTracker[y]]_vars

C13_Witness ==
  /\ lastEvt.type = "reply"
  /\ lastEvt.resp = "primary"
  /\ lastEvt.id = AskId(<<"https://b:8888", "/api/contents/x">>)
  /\ IsAskTicket(AskId(<<"https://a:8888", "/api/contents/x">>))
  /\ out.sent # <<>>

\* C14: a dialog registered under an id that already has a resolver replaces
\* that resolver and adds no second entry, and a reply with the id invokes
\* one resolver only, the one registered last.
C14_LastWriteWins ==
  /\ [](lastEvt.type = "reply" /\ out.called # <<>>
          => /\ Len(out.called) = 1
             /\ out.called[1].fn.gen = dialogRespTracker[lastEvt.id].gen)
  /\ [][\A i \in DOMAIN out'.shown :
          LET id == out'.shown[i].id
          IN  /\ DOMAIN dialogRespTracker' = DOMAIN dialogRespTracker \cup {id}
              /\ dialogRespTracker'[id].gen =
                   IF id \in DOMAIN dialogRespTracker
                     THEN dialogRespTracker[id].gen + 1 ELSE 1]_vars

C14_Witness ==
  /\ lastEvt.type = "reply"
  /\ out.called # <<>>
  /\ out.called[1].fn.gen = 2

CompleteEntry(e) ==
  \E r \in CookieLists :
    /\ Len(r) >= 2
    /\ e = [cookie |-> r[1].name \o <<"=">> \o r[1].value \o <<"; ">>
                         \o r[2].name \o <<"=">> \o r[2].value,
            xsrf |-> r[1].value]

\* C16: the steps of an origin's pipeline occur in the order login, cache,
\* probe, prompt, PUT, reload: a probe GET is issued only by the cookie
\* lookup of the origin once cookie and XSRF token are both cached, and it
\* carries them; the shortcuts prompt is shown only by a probe of the origin
\* that returned a positive verdict; a PUT is issued only by a 'primary'
\* reply on the prompt's ticket; a reload only by the completion of a PUT.
C16_PipelineOrder ==
  /\ \A i \in DOMAIN out.sent :
       out.sent[i].method = "GET"
         => /\ lastEvt.type = "cookies"
            /\ out.sent[i].origin = lastEvt.url[1]
            /\ lastEvt.url[1] \in DOMAIN jupyterCookieTracker
            /\ CompleteEntry(jupyterCookieTracker[lastEvt.url[1]])
            /\ out.sent[i].cookie = jupyterCookieTracker[lastEvt.url[1]].cookie
            /\ out.sent[i].xsrf = jupyterCookieTracker[lastEvt.url[1]].xsrf
  /\ \A o \in Origins :
       /\ nProbe[o] <= nFetch[o]
       /\ nProbe[o] > 0 => o \in DOMAIN jupyterCookieTracker
       /\ o \in DOMAIN jupyterCookieTracker => nFetch[o] > 0
  /\ \A i \in DOMAIN out.shown :
       out.shown[i].type = "question"
         => /\ lastEvt.type = "probe"
            /\ ~lastEvt.error
            /\ out.called = <<[fn |-> "probe", arg |-> TRUE]>>
            /\ out.shown[i].id = lastEvt.url \o <<TAG>>
  /\ \A id \in DOMAIN dialogRespTracker :
       dialogRespTracker[id].fn = "ask" => nProbe[id[1]] > 0
  /\ \A i \in DOMAIN out.sent :
       out.sent[i].method = "PUT"
         => /\ lastEvt.type = "reply"
            /\ lastEvt.resp = "primary"
            /\ lastEvt.id \in DOMAIN dialogRespTracker
            /\ dialogRespTracker[lastEvt.id].fn = "ask"
            /\ out.sent[i].origin = lastEvt.id[1]
  /\ \A r \in BagToSet(putPending) :
       \E id \in DOMAIN dialogRespTracker :
         dialogRespTracker[id].fn = "ask" /\ id[1] = r.origin
  /\ out.reloaded # <<>> => lastEvt.type = "put"

C16_Witness ==
  /\ lastEvt.type = "reply"
  /\ out.sent # <<>>
  /\ out.sent[1].method = "PUT"
  /\ out.sent[1].xsrf = <<"1">>

\* C17: the window of an origin is reloaded if and only if a PUT for the
\* origin completed without transport error, once for each such PUT, and
\* the window reloaded is the one recorded for the origin and is open; a PUT
\* that failed leads to nothing: no reload, no request, no pending state.
C17_ReloadIffPutSucceeded ==
  /\ [](out.reloaded # <<>>
          => /\ lastEvt.type = "put"
             /\ ~lastEvt.error
             /\ out.reloaded = <<windowTracker[lastEvt.origin]>>
             /\ wins[out.reloaded[1]].open)
  /\ []((/\ lastEvt.type = "put"
          /\ ~lastEvt.error
          /\ lastEvt.origin \in DOMAIN windowTracker)
          => /\ Len(out.reloaded) = 1
             /\ out.threw = "")
  /\ []((lastEvt.type = "put" /\ lastEvt.error) => out = NoOut)
  /\ [][(lastEvt'.type = "put" /\ lastEvt'.error)
          => /\ BagCardinality(putPending') = BagCardinality(putPending) - 1
             /\ UNCHANGED << loginTracker, windowTracker, dialogRespTracker,
                             jupyterCookieTracker, wins, cookiePending,
                             probePending >>]_vars

\* C18: closing the window opened for an origin removes that origin's
\* loginSeen flag and nothing else: the cached credentials, the window
\* tracker, every ticket and every pending request are left as they were,
\* and the flags of the other origins too.
C18_CloseRemovesFlagOnly ==
  [][lastEvt'.type = "closed"
      => /\ loginTracker' = loginTracker \ {wins[lastEvt'.win].url[1]}
         /\ UNCHANGED << jupyterCookieTracker, windowTracker,
                         dialogRespTracker, cookiePending, probePending,
                         putPending, pref >>]_vars

C18_Witness ==
  /\ lastEvt.type = "closed"
  /\ "https://a:8888" \notin loginTracker
  /\ "https://b:8888" \in loginTracker
  /\ "https://a:8888" \in DOMAIN jupyterCookieTracker
  /\ IsAskTicket(AskId(<<"https://a:8888", "/api/contents/x">>))

\* the origin whose pipeline the last step belongs to
EventOrigin(e) ==
  IF e.type = "response" THEN e.details.url[1]
  ELSE IF e.type \in {"cookies", "probe"} THEN e.url[1]
  ELSE IF e.type = "put" THEN e.origin
  ELSE IF e.type = "reply" /\ Len(e.id) > 1 THEN e.id[1]
  ELSE "none"

PipelineEvents == {"response", "cookies", "probe", "reply", "put"}

CacheOf(tracker, o) == IF o \in DOMAIN tracker THEN <<tracker[o]>> ELSE <<>>

\* C19: a step of one origin's pipeline (response, cookie lookup, probe,
\* reply, PUT completion), also one that ends in an error, leaves the
\* loginSeen flag, the cached credentials, the window entry, the pending
\* lookups and probes and the shortcuts tickets of every other origin as
\* they were.
C19_OriginsIsolated ==
  [][lastEvt'.type \in PipelineEvents
      => \A o \in Origins \ {EventOrigin(lastEvt')} :
           /\ (o \in loginTracker') = (o \in loginTracker)
           /\ CacheOf(jupyterCookieTracker', o) = CacheOf(jupyterCookieTracker, o)
           /\ CacheOf(windowTracker', o) = CacheOf(windowTracker, o)
           /\ \A u \in Urls :
                u[1] = o => CopiesIn(u, cookiePending') = CopiesIn(u, cookiePending)
           /\ \A r \in BagToSet(probePending) \cup BagToSet(probePending') :
                r.origin = o => CopiesIn(r, probePending') = CopiesIn(r, probePending)
           /\ \A id \in DOMAIN dialogRespTracker :
                id[1] = o => /\ id \in DOMAIN dialogRespTracker'
                             /\ dialogRespTracker'[id] = dialogRespTracker[id]]_vars

C19_Witness ==
  /\ lastEvt.type = "probe"
  /\ lastEvt.url[1] = "https://b:8888"
  /\ out.called = <<[fn |-> "probe", arg |-> TRUE]>>
  /\ "https://a:8888" \in DOMAIN jupyterCookieTracker
  /\ jupyterCookieTracker["https://a:8888"].xsrf = Undefined

\* C20: in every reachable state an entry of the credential cache is
\* complete, header and XSRF token both built from the first two cookies of
\* one lookup, and a complete entry stays complete.
C20_CacheAbsentOrComplete ==
  /\ [](\A o \in DOMAIN jupyterCookieTracker :
          CompleteEntry(jupyterCookieTracker[o]))
  /\ [][\A o \in DOMAIN jupyterCookieTracker :
          CompleteEntry(jupyterCookieTracker[o])
            => CompleteEntry(jupyterCookieTracker'[o])]_vars

====
